---- MODULE Spec2Model ----
(***************************************************************************)
(* Model of the brushing session of src/src/App.tsx: the App component's   *)
(* React state, its two interval timers, the camera acquisition calls and  *)
(* the classification requests in flight.  Every handler is one action:    *)
(* the state updates it makes, the re-render they cause and the effects    *)
(* that re-run on an appState change are one atomic step (React commits    *)
(* and runs effects before the next timer or promise callback).  Time is   *)
(* abstracted: timer callbacks and promise settlements interleave freely.  *)
(***************************************************************************)
EXTENDS Integers, Sequences, FiniteSets, TLC

\* ---- bounds of the model ----
MaxOutstanding == 2      \* classifier requests in flight at once
MaxCameraCalls == 2      \* getUserMedia calls in flight at once

\* ---- program constants ----
BRUSHING_REQUIRED_TIME == 10
ConfidenceThreshold == 4          \* 0.4, confidences are in tenths

AppStates == {"IDLE", "APPLYING_TOOTHPASTE", "BRUSHING", "FINISHED", "ERROR"}

\* the states in which analyzeFrame issues a request
PollStates == AppStates \ {"FINISHED", "ERROR"}

Null == "null"
MsgReady == "Ready to start"
MsgToothpaste == "Toothpaste detected! Now put the brush in your mouth."
MsgBrushing == "Brushing detected! Keep going for 10 seconds."
MsgReward == "Great job! Here is your reward."
MsgCamera == "Could not access camera. Please ensure permissions are granted."

\* ---- the classifier's response, as JSON.parse leaves it ----
\* A boolean field is "true" or "false", or "absent" (undefined) in the
\* empty object; confidence is a number of tenths, or Undefined when absent.
\* The reasoning field is never read by the code and is left out.
Undefined == -1
JsonBools == {"true", "false"}
Confidences == {3, 4}

\* what '{}' parses to (line 138: response.text || '{}')
EmptyObject ==
    [isApplyingToothpaste |-> "absent", isBrushInMouth |-> "absent",
     isBrushing |-> "absent", confidence |-> Undefined]

\* the responses the classifier is taken to give: every combination of the
\* three booleans with a confidence on either side of the gate or with the
\* confidence field missing, and the empty object
DetectionResult ==
    [isApplyingToothpaste : JsonBools, isBrushInMouth : JsonBools,
     isBrushing : JsonBools, confidence : Confidences \cup {Undefined}]
        \cup {EmptyObject}

\* history only: the result slot of a handler that had no response
NoResult == EmptyObject

\* JavaScript truthiness of a parsed boolean field: undefined is falsy.
Truthy(b) == b = "true"

\* JavaScript c < t on numbers: a comparison with undefined (NaN) is false.
LessThan(c, t) == c # Undefined /\ c < t

VARIABLES
    appState,          \* useState<AppState>
    isAnalyzing,       \* useState(false)
    brushingTime,      \* useState(0)
    error,             \* useState<string | null>
    statusMessage,     \* useState('Ready to start')
    streamOn,          \* videoRef.current.srcObject holds a stream
    cameraPending,     \* startCamera calls awaiting getUserMedia
    pending,           \* classifier requests awaiting generateContent
    pollTimer,         \* intervalRef and the live polling intervals
    pollCtx,           \* appState captured by the polling callback
    brushingTimer,     \* brushingTimerRef and the live countdown intervals
    ticks,             \* history: countdown callbacks of this BRUSHING run
    sinceReset,        \* history: reset() ran and appState is IDLE ever since
    lastOp             \* history: the handler that ran last, its input

vars == <<appState, isAnalyzing, brushingTime, error, statusMessage,
          streamOn, cameraPending, pending, pollTimer, pollCtx,
          brushingTimer, ticks, sinceReset, lastOp>>

\* op: the handler; from: appState when it ran; ctx: the appState a
\* classifier request was issued under; result: the parsed response
Op(name, from, ctx, res) ==
    [op |-> name, from |-> from, ctx |-> ctx, result |-> res]

\* ---- interval handles ----
\* n: number of live intervals of the cadence; ref: the handle stored in
\* the ref is live.
NoTimer == [n |-> 0, ref |-> FALSE]
\* mutant: clearInterval is given a stale handle and stops nothing
ClearInterval_Stale(t) == t

ClearInterval(t) == IF t.ref THEN [n |-> t.n - 1, ref |-> FALSE] ELSE t
SetInterval(t) == [n |-> t.n + 1, ref |-> TRUE]

\* ---- effects that re-run when appState changes ----
\* cleanup of the previous run, then the body of the new run
\* mutant: the effect never starts the countdown interval
TimerEffect_NoStart(prev, next, t) ==
    IF prev = next THEN t ELSE ClearInterval(t)

TimerEffect(prev, next, t) ==
    IF prev = next THEN t
    ELSE LET c == ClearInterval(t)
         IN  IF next = "BRUSHING" THEN SetInterval(c) ELSE ClearInterval(c)

\* mutant: the effect zeroes the count only on entering IDLE
TimerEffectTime_OnlyIdle(prev, next, time) ==
    IF prev # next /\ next = "IDLE" THEN 0 ELSE time

TimerEffectTime(prev, next, time) ==
    IF prev # next /\ next # "BRUSHING" /\ next # "FINISHED" THEN 0 ELSE time

\* mutant: the effect clears the polling interval and never starts a new one
MainLoopEffect_NoRestart(prev, next, t) ==
    IF prev = next THEN t ELSE ClearInterval(t)

MainLoopEffect(prev, next, t) ==
    IF prev = next THEN t
    ELSE LET c == ClearInterval(t)
         IN  IF next # "FINISHED" /\ next # "ERROR"
             THEN SetInterval(c) ELSE ClearInterval(c)

\* history: an attempt begun by reset() lasts until appState changes
StillSinceReset(next) == sinceReset /\ next = appState

\* the commit of a new appState: both effects, and the history counter
Commit(next, time) ==
    /\ appState' = next
    /\ brushingTime' = TimerEffectTime(appState, next, time)
    /\ brushingTimer' = TimerEffect(appState, next, brushingTimer)
    /\ pollTimer' = MainLoopEffect(appState, next, pollTimer)
    /\ pollCtx' = next
    /\ ticks' = IF appState # next THEN 0 ELSE ticks

Init ==
    /\ appState = "IDLE"
    /\ isAnalyzing = FALSE
    /\ brushingTime = 0
    /\ error = Null
    /\ statusMessage = MsgReady
    /\ streamOn = FALSE
    /\ cameraPending = 1
    /\ pending = [s \in PollStates |-> 0]
    /\ pollTimer = SetInterval(NoTimer)
    /\ pollCtx = "IDLE"
    /\ brushingTimer = NoTimer
    /\ ticks = 0
    /\ sinceReset = FALSE
    /\ lastOp = Op("mount", "IDLE", "IDLE", NoResult)

\* ---- camera ----
startCamera ==
    /\ error # Null
    /\ cameraPending < MaxCameraCalls
    /\ cameraPending' = cameraPending + 1
    /\ lastOp' = Op("startCamera", appState, appState, NoResult)
    /\ UNCHANGED <<appState, isAnalyzing, brushingTime, error, statusMessage,
                   streamOn, pending, pollTimer, pollCtx, brushingTimer,
                   ticks, sinceReset>>

\* mutant: a successful acquisition without setError(null)
CameraAcquired_KeepsError ==
    /\ cameraPending > 0
    /\ cameraPending' = cameraPending - 1
    /\ streamOn' = TRUE
    /\ Commit("IDLE", brushingTime)
    /\ sinceReset' = StillSinceReset("IDLE")
    /\ lastOp' = Op("cameraAcquired", appState, appState, NoResult)
    /\ UNCHANGED <<error, isAnalyzing, statusMessage, pending>>

CameraAcquired ==
    /\ cameraPending > 0
    /\ cameraPending' = cameraPending - 1
    /\ streamOn' = TRUE
    /\ error' = Null
    /\ Commit("IDLE", brushingTime)
    /\ sinceReset' = StillSinceReset("IDLE")
    /\ lastOp' = Op("cameraAcquired", appState, appState, NoResult)
    /\ UNCHANGED <<isAnalyzing, statusMessage, pending>>

CameraFailed ==
    /\ cameraPending > 0
    /\ cameraPending' = cameraPending - 1
    /\ error' = MsgCamera
    /\ Commit("ERROR", brushingTime)
    /\ sinceReset' = StillSinceReset("ERROR")
    /\ lastOp' = Op("cameraFailed", appState, appState, NoResult)
    /\ UNCHANGED <<isAnalyzing, statusMessage, streamOn, pending>>

\* ---- polling and classification ----
\* pending[s]: the requests in flight whose prompt carries appState s
Outstanding ==
    pending["IDLE"] + pending["APPLYING_TOOTHPASTE"] + pending["BRUSHING"]
Issue(s) == [pending EXCEPT ![s] = @ + 1]
Settle(s) == [pending EXCEPT ![s] = @ - 1]

\* captureFrame returned null or an empty image: analyzeFrame returns
AnalyzeNoFrame ==
    /\ pollTimer.n > 0
    /\ pollCtx # "FINISHED" /\ pollCtx # "ERROR"
    /\ lastOp' = Op("noFrame", appState, pollCtx, NoResult)
    /\ UNCHANGED <<appState, isAnalyzing, brushingTime, error, statusMessage,
                   streamOn, cameraPending, pending, pollTimer, pollCtx,
                   brushingTimer, ticks, sinceReset>>

\* analyzeFrame up to the await of generateContent
AnalyzeStart ==
    /\ pollTimer.n > 0
    /\ pollCtx # "FINISHED" /\ pollCtx # "ERROR"
    /\ streamOn
    /\ Outstanding < MaxOutstanding
    /\ isAnalyzing' = TRUE
    /\ pending' = Issue(pollCtx)
    /\ lastOp' = Op("analyze", appState, pollCtx, NoResult)
    /\ UNCHANGED <<appState, brushingTime, error, statusMessage, streamOn,
                   cameraPending, pollTimer, pollCtx, brushingTimer, ticks,
                   sinceReset>>

\* mutant: a brush seen in the mouth takes IDLE straight to BRUSHING
NextAppState_Skip(prev, result) ==
    IF prev = "IDLE" /\ Truthy(result.isBrushInMouth)
    THEN "BRUSHING"
    ELSE IF prev = "IDLE" /\ Truthy(result.isApplyingToothpaste)
    THEN "APPLYING_TOOTHPASTE"
    ELSE IF prev = "APPLYING_TOOTHPASTE" /\ Truthy(result.isBrushInMouth)
    THEN "BRUSHING"
    ELSE prev

\* mutant: the empty branch for a lost brushing signal restarts the attempt
NextAppState_Regress(prev, result) ==
    IF prev = "IDLE" /\ Truthy(result.isApplyingToothpaste)
    THEN "APPLYING_TOOTHPASTE"
    ELSE IF prev = "APPLYING_TOOTHPASTE" /\ Truthy(result.isBrushInMouth)
    THEN "BRUSHING"
    ELSE IF prev = "BRUSHING" /\ ~Truthy(result.isBrushing)
                              /\ ~Truthy(result.isBrushInMouth)
    THEN "IDLE"
    ELSE prev

\* mutant: a late toothpaste result restarts a finished attempt
NextAppState_Restart(prev, result) ==
    IF (prev = "IDLE" \/ prev = "FINISHED")
       /\ Truthy(result.isApplyingToothpaste)
    THEN "APPLYING_TOOTHPASTE"
    ELSE IF prev = "APPLYING_TOOTHPASTE" /\ Truthy(result.isBrushInMouth)
    THEN "BRUSHING"
    ELSE prev

\* mutant: a toothpaste result takes the session out of ERROR
NextAppState_FromError(prev, result) ==
    IF (prev = "IDLE" \/ prev = "ERROR")
       /\ Truthy(result.isApplyingToothpaste)
    THEN "APPLYING_TOOTHPASTE"
    ELSE IF prev = "APPLYING_TOOTHPASTE" /\ Truthy(result.isBrushInMouth)
    THEN "BRUSHING"
    ELSE prev

\* the updater handleDetectionResult passes to setAppState
NextAppState(prev, result) ==
    IF prev = "IDLE" /\ Truthy(result.isApplyingToothpaste)
    THEN "APPLYING_TOOTHPASTE"
    ELSE IF prev = "APPLYING_TOOTHPASTE" /\ Truthy(result.isBrushInMouth)
    THEN "BRUSHING"
    ELSE prev

NextStatusMessage(prev, result, msg) ==
    IF prev = "IDLE" /\ Truthy(result.isApplyingToothpaste)
    THEN MsgToothpaste
    ELSE IF prev = "APPLYING_TOOTHPASTE" /\ Truthy(result.isBrushInMouth)
    THEN MsgBrushing
    ELSE msg

\* mutant: the gate compares with 0.3
LowConfidence_Lower(result) == LessThan(result.confidence, 3)

LowConfidence(result) == LessThan(result.confidence, ConfidenceThreshold)

handleDetectionResult(result) ==
    IF LowConfidence(result)
    THEN /\ Commit(appState, brushingTime)
         /\ statusMessage' = statusMessage
         /\ sinceReset' = sinceReset
    ELSE /\ Commit(NextAppState(appState, result), brushingTime)
         /\ statusMessage' = NextStatusMessage(appState, result, statusMessage)
         /\ sinceReset' = StillSinceReset(NextAppState(appState, result))

\* generateContent resolved and JSON.parse returned an object
AnalyzeSettle ==
    \E s \in PollStates, result \in DetectionResult :
        /\ pending[s] > 0
        /\ pending' = Settle(s)
        /\ handleDetectionResult(result)
        /\ isAnalyzing' = FALSE
        /\ lastOp' = Op("result", appState, s, result)
        /\ UNCHANGED <<error, streamOn, cameraPending>>

\* mutant: the catch block restarts the attempt
CatchAppState_Restart(prev) == "IDLE"

\* mutant: the catch block promotes the failure to the ERROR state
CatchAppState_Error(prev) == "ERROR"

\* what the catch block of analyzeFrame does to the session
CatchAppState(prev) == prev

\* generateContent rejected, or JSON.parse / the field read threw
AnalyzeFail ==
    \E s \in PollStates :
        /\ pending[s] > 0
        /\ pending' = Settle(s)
        /\ Commit(CatchAppState(appState), brushingTime)
        /\ sinceReset' = StillSinceReset(CatchAppState(appState))
        /\ isAnalyzing' = FALSE
        /\ lastOp' = Op("failure", appState, s, NoResult)
        /\ UNCHANGED <<error, statusMessage, streamOn, cameraPending>>

\* ---- countdown ----
\* mutant: the updater compares with > instead of >=
TimeUp_Late(time) == time > BRUSHING_REQUIRED_TIME

TimeUp(time) == time >= BRUSHING_REQUIRED_TIME

Tick ==
    /\ brushingTimer.n > 0
    /\ ticks' = ticks + 1
    /\ lastOp' = Op("tick", appState, appState, NoResult)
    /\ IF TimeUp(brushingTime)
       THEN /\ appState' = "FINISHED"
            /\ statusMessage' = MsgReward
            /\ brushingTime' = brushingTime
            /\ brushingTimer' =
                   TimerEffect(appState, "FINISHED",
                               ClearInterval(brushingTimer))
            /\ pollTimer' = MainLoopEffect(appState, "FINISHED", pollTimer)
            /\ pollCtx' = "FINISHED"
            /\ sinceReset' = FALSE
       ELSE /\ brushingTime' = brushingTime + 1
            /\ UNCHANGED <<appState, statusMessage, brushingTimer, pollTimer,
                           pollCtx, sinceReset>>
    /\ UNCHANGED <<isAnalyzing, error, streamOn, cameraPending, pending>>

\* ---- restart ----
\* mutant: reset without setError(null)
ResetStep_KeepsError ==
    /\ Commit("IDLE", 0)
    /\ sinceReset' = TRUE
    /\ statusMessage' = MsgReady
    /\ lastOp' = Op("reset", appState, appState, NoResult)
    /\ UNCHANGED <<error, isAnalyzing, streamOn, cameraPending, pending>>

ResetStep ==
    /\ Commit("IDLE", 0)
    /\ sinceReset' = TRUE
    /\ statusMessage' = MsgReady
    /\ error' = Null
    /\ lastOp' = Op("reset", appState, appState, NoResult)
    /\ UNCHANGED <<isAnalyzing, streamOn, cameraPending, pending>>

\* the restart button is rendered only in FINISHED
reset ==
    /\ appState = "FINISHED"
    /\ ResetStep

Next ==
    \/ startCamera
    \/ CameraAcquired
    \/ CameraFailed
    \/ AnalyzeNoFrame
    \/ AnalyzeStart
    \/ AnalyzeSettle
    \/ AnalyzeFail
    \/ Tick
    \/ reset

Spec == Init /\ [][Next]_vars

\* the 1000 ms interval keeps firing while it is live
SpecLive == Init /\ [][Next]_vars /\ WF_vars(Tick)

\* ---- reset() as a function of the session it is invoked on ----
Messages == {MsgReady, MsgToothpaste, MsgBrushing, MsgReward}

InitReset ==
    /\ appState \in AppStates
    /\ brushingTime \in 0..BRUSHING_REQUIRED_TIME
    /\ error \in {Null, MsgCamera}
    /\ statusMessage \in Messages
    /\ isAnalyzing = FALSE
    /\ streamOn = TRUE
    /\ cameraPending = 0
    /\ pending = [s \in PollStates |-> 0]
    /\ pollTimer = MainLoopEffect("", appState, NoTimer)
    /\ pollCtx = appState
    /\ brushingTimer = TimerEffect("", appState, NoTimer)
    /\ ticks = 0
    /\ sinceReset = FALSE
    /\ lastOp = Op("mount", appState, appState, NoResult)

NextReset == lastOp.op = "mount" /\ ResetStep

SpecReset == InitReset /\ [][NextReset]_vars

\* ---- properties ----
IsResult(o) == o.op = "result"
HasConfidence(r) == r.confidence # Undefined
SessionUnchanged == appState' = appState /\ statusMessage' = statusMessage

\* C1: at most one classifier request started by analyzeFrame is
\* outstanding in every reachable state.
C1_AtMostOneOutstanding == Outstanding <= 1

\* C2: a result whose request was issued under a state other than the
\* state at settlement changes neither the state nor the status message.
C2_StaleResultDiscarded ==
    [][(IsResult(lastOp') /\ lastOp'.ctx # appState) => SessionUnchanged]_vars

\* C3: the session is in FINISHED, with brushingTime 10, once ten countdown
\* ticks have run since BRUSHING was entered with brushingTime 0.
C3_FinishedOnTenthTick ==
    (appState \in {"BRUSHING", "FINISHED"} /\ ticks >= BRUSHING_REQUIRED_TIME)
        => (appState = "FINISHED" /\ ticks = BRUSHING_REQUIRED_TIME
            /\ brushingTime = BRUSHING_REQUIRED_TIME)

\* C4: handling a result with confidence < 0.4 leaves the state and the
\* status message unchanged, in every state and for every field combination.
C4_LowConfidenceNoTransition ==
    [][(IsResult(lastOp') /\ HasConfidence(lastOp'.result)
        /\ lastOp'.result.confidence < 4) => SessionUnchanged]_vars

C4_Witness ==
    /\ IsResult(lastOp)
    /\ lastOp.result.confidence = 3
    /\ lastOp.result.isApplyingToothpaste = "true"
    /\ lastOp.from = "IDLE"
    /\ appState = "IDLE"

\* C5: a response lacking any field is treated as a classification failure
\* and changes neither the state nor the status message.
Malformed(r) ==
    \/ r.isApplyingToothpaste = "absent"
    \/ r.isBrushInMouth = "absent"
    \/ r.isBrushing = "absent"
    \/ r.confidence = Undefined

C5_FailClosed ==
    [][(IsResult(lastOp') /\ Malformed(lastOp'.result))
          => SessionUnchanged]_vars

\* C6: handling a result with confidence >= 0.4 follows the transition
\* table: IDLE goes to APPLYING_TOOTHPASTE exactly when isApplyingToothpaste
\* is true, APPLYING_TOOTHPASTE goes to BRUSHING exactly when isBrushInMouth
\* is true, and every other case holds the state.
C6_Table(s, r) ==
    CASE s = "IDLE" /\ r.isApplyingToothpaste = "true" -> "APPLYING_TOOTHPASTE"
      [] s = "APPLYING_TOOTHPASTE" /\ r.isBrushInMouth = "true" -> "BRUSHING"
      [] OTHER -> s

C6_TransitionTable ==
    [][(IsResult(lastOp') /\ HasConfidence(lastOp'.result)
        /\ lastOp'.result.confidence >= 4)
          => appState' = C6_Table(appState, lastOp'.result)]_vars

C6_Witness ==
    /\ IsResult(lastOp)
    /\ lastOp.result.confidence = 4
    /\ lastOp.result.isApplyingToothpaste = "true"
    /\ lastOp.result.isBrushInMouth = "true"
    /\ lastOp.from = "IDLE"
    /\ appState = "APPLYING_TOOTHPASTE"

\* C7: in BRUSHING no detection result changes the state or the status
\* message, and the only step from BRUSHING to FINISHED is a countdown tick
\* that finds brushingTime at BRUSHING_REQUIRED_TIME.
C7_BrushingSticky ==
    [][/\ (appState = "BRUSHING" /\ IsResult(lastOp')) => SessionUnchanged
       /\ (appState = "BRUSHING" /\ appState' = "FINISHED")
             => (lastOp'.op = "tick"
                 /\ brushingTime = BRUSHING_REQUIRED_TIME)]_vars

C7_Witness ==
    /\ IsResult(lastOp)
    /\ lastOp.from = "BRUSHING"
    /\ lastOp.ctx = "IDLE"
    /\ lastOp.result.confidence = 4
    /\ lastOp.result.isBrushing = "false"
    /\ lastOp.result.isBrushInMouth = "false"
    /\ appState = "BRUSHING"
    /\ brushingTime = 5

\* C8: a classification failure leaves state, brushingTime, statusMessage
\* and error unchanged, and leaves the polling interval as it was (live in
\* every non-terminal state).
C8_FailureChangesNothing ==
    [][lastOp'.op = "failure"
          => /\ UNCHANGED <<appState, brushingTime, statusMessage, error,
                            pollTimer>>
             /\ (appState \in PollStates => pollTimer'.n >= 1)]_vars

C8_Witness ==
    /\ lastOp.op = "failure"
    /\ lastOp.from = "BRUSHING"
    /\ appState = "BRUSHING"
    /\ brushingTime = 5
    /\ pollTimer.n = 1

\* C9: after reset(), invoked in any state, appState is IDLE, brushingTime
\* is 0 and error is null.
C9_ResetReturnsToIdle ==
    lastOp.op = "reset"
        => (appState = "IDLE" /\ brushingTime = 0 /\ error = Null)

C9_Witness ==
    /\ lastOp.op = "reset"
    /\ lastOp.from = "ERROR"
    /\ appState = "IDLE"

\* C10: only a failed camera acquisition sets appState to ERROR; no
\* classification result, classification failure, missing frame or
\* countdown tick does.
C10_ErrorOnlyFromCamera ==
    [][/\ (appState' = "ERROR" /\ appState # "ERROR")
             => lastOp'.op = "cameraFailed"
       /\ (lastOp'.op \in {"result", "failure", "noFrame", "tick", "analyze"}
             => (appState' = "ERROR" => appState = "ERROR"))]_vars

C10_Witness ==
    /\ lastOp.op = "cameraFailed"
    /\ lastOp.from = "BRUSHING"
    /\ appState = "ERROR"
    /\ error = MsgCamera
    /\ Outstanding > 0

C13_PreResetResultDiscarded ==
    [][(IsResult(lastOp') /\ sinceReset /\ lastOp'.ctx # "IDLE")
          => SessionUnchanged]_vars

\* C14: apart from reset() and the settlement of a camera acquisition,
\* every change of appState is IDLE -> APPLYING_TOOTHPASTE,
\* APPLYING_TOOTHPASTE -> BRUSHING or BRUSHING -> FINISHED; so FINISHED is
\* entered only from BRUSHING, BRUSHING only from APPLYING_TOOTHPASTE and
\* APPLYING_TOOTHPASTE only from IDLE.
C14_ForwardSteps ==
    {<<"IDLE", "APPLYING_TOOTHPASTE">>, <<"APPLYING_TOOTHPASTE", "BRUSHING">>,
     <<"BRUSHING", "FINISHED">>}

C15_CountdownLiveness ==
    (appState = "BRUSHING")
        ~> \/ appState = "FINISHED"
           \/ /\ lastOp.op \in {"cameraAcquired", "cameraFailed"}
              /\ lastOp.from = "BRUSHING"

C15_Witness ==
    /\ appState = "FINISHED"
    /\ ticks = BRUSHING_REQUIRED_TIME + 1
    /\ lastOp.op \in {"result", "failure"}
    /\ lastOp.ctx = "BRUSHING"

C18_ElapsedBounded ==
    brushingTime >= 0 /\ brushingTime <= BRUSHING_REQUIRED_TIME

C18_Witness ==
    /\ lastOp.op = "tick"
    /\ ticks = BRUSHING_REQUIRED_TIME + 1
    /\ brushingTime = BRUSHING_REQUIRED_TIME

\* C19: isAnalyzing is true exactly when a classifier request started by
\* analyzeFrame has not yet settled.
C19_IsAnalyzingExact == isAnalyzing <=> Outstanding > 0

TypeOK ==
    /\ appState \in AppStates
    /\ isAnalyzing \in BOOLEAN
    /\ brushingTime \in 0..BRUSHING_REQUIRED_TIME
    /\ error \in {Null, MsgCamera}
    /\ statusMessage \in {MsgReady, MsgToothpaste, MsgBrushing, MsgReward}
    /\ cameraPending \in 0..MaxCameraCalls
    /\ Outstanding <= MaxOutstanding
====
